---- MODULE Spec2Model ----
(***************************************************************************)
(* Model of the media-generation backend.                                  *)
(*                                                                         *)
(*  Part I  - the video generation job: VeoService.start_video_generation_ *)
(*            job (request process) and _process_video_in_background       *)
(*            (worker process), sharing one media_library document.        *)
(*  Part II - the cursor-paginated repository queries.                     *)
(*  Part III - search requests: validation of the request body and the     *)
(*            role scoping of the source-asset search.                     *)
(*  Part IV - response enrichment: concurrent signing of object references.*)
(*  Part V  - SourceAssetService.upload_asset, two requests interleaved.   *)
(*  Part VI - WorkspaceRepository.add_member_to_workspace.                 *)
(*  Part VII - BrandGuidelineService: create and delete, interleaved.      *)
(*  Part VIII - BaseRepository.save and update.                            *)
(*  Part IX - get_current_user and RoleChecker.                            *)
(*  Part X  - the video worker dispatched twice for one record.            *)
(*  Part XI - GalleryService.get_paginated_gallery.                        *)
(*  Part XII - ImagenService.generate_images under its retry decorator.    *)
(*  Part XIII - BrandGuidelineService._split_and_upload_pdf.               *)
(***************************************************************************)
EXTENDS Integers, Sequences, FiniteSets, TLC

(***************************************************************************)
(* Bounds and program constants                                            *)
(***************************************************************************)
\* largest number_of_media explored (CreateVeoDto allows 1..4)
MaxVideos == 2
\* largest number of polls of one operation explored
MaxPolls == 2
\* time.sleep(10) between two polls
PollInterval == 10

NONE == "NONE"
NoDoc == [status |-> "absent"]
NoResp == [status |-> "none"]

PROCESSING == "processing"
COMPLETED == "completed"
FAILED == "failed"
Terminal == {COMPLETED, FAILED}

\* "" as an object reference (upload_file_to_gcs(...) or "")
EmptyUri == 0
\* the URIs the remote service can put on a generated video
VideoUris == 1..MaxVideos
\* a generated video without video.uri
NoUri == 0
\* gs://<bucket>/<path of the thumbnail next to the video>
ThumbUri(v) == 100 + v

\* str(e) of the exceptions the collaborators raise; Exception() has str ""
ExcMsgs == {"", "error"}
\* str(Exception(operation.error)) for a truthy operation.error
OpErrorMsg == "operation error"

Min(a, b) == IF a < b THEN a ELSE b

RECURSIVE SeqsUpTo(_, _)
SeqsUpTo(S, n) ==
    IF n = 0 THEN {<< >>}
    ELSE LET shorter == SeqsUpTo(S, n - 1)
         IN  shorter \cup {Append(s, x) : s \in {t \in shorter : Len(t) = n - 1}, x \in S}

Injective(s) == \A i, j \in DOMAIN s : (i # j /\ s[i] # NoUri /\ s[j] # NoUri) => s[i] # s[j]

\* operation.response.generated_videos for a request of n videos: at most n
\* videos, each with a distinct URI or without one
VideoLists(n) == {s \in SeqsUpTo(VideoUris \cup {NoUri}, n) : Injective(s)}

VARIABLES
    doc,        \* the media_library document of the job, or NoDoc
    writes,     \* history: the status carried by every write to the document
    api,        \* the request process running start_video_generation_job
    resp,       \* the MediaItemResponse returned to the caller, or NoResp
    worker,     \* the worker process running _process_video_in_background
    observed,   \* status last returned by get-by-id, or NONE
    coll,       \* a Firestore collection: document id -> stored fields
    trav,       \* a client following next_page_cursor through one query
    search,     \* one search request: validation, role scoping, query
    enr,        \* one enrichment: the signing tasks of a response
    up,         \* the source assets, the bucket and the upload_asset requests
    ws,         \* one workspaces document and the last add_member call
    bg,         \* the brand guidelines, the bucket and the guideline requests
    store,      \* a collection written through BaseRepository, and the clock
    auth,       \* one request through get_current_user or RoleChecker
    dup,        \* two runs of the video worker dispatched for one record
    gal,        \* one get_paginated_gallery request over media_library
    img,        \* one call of generate_images through its retry decorator
    pdf         \* one call of _split_and_upload_pdf

jobVars == <<doc, writes, api, resp, worker, observed>>
pageVars == <<coll, trav>>
moreVars == <<auth, dup, gal, img, pdf>>
auxVars == <<search, enr, up, ws, bg, store, moreVars>>
vars == <<doc, writes, api, resp, worker, observed, coll, trav,
          search, enr, up, ws, bg, store, auth, dup, gal, img, pdf>>


(***************************************************************************)
(* Part I - the video generation job                                       *)
(***************************************************************************)

\* a GenerateVideosOperation as the worker holds it
NoOp == [done |-> FALSE, error |-> FALSE, has_response |-> FALSE, videos |-> << >>]

\* what a finished operation can carry for a request of n videos
DoneOps(n) ==
    {[done |-> TRUE, error |-> TRUE, has_response |-> FALSE, videos |-> << >>],
     [done |-> TRUE, error |-> FALSE, has_response |-> FALSE, videos |-> << >>]}
    \cup {[done |-> TRUE, error |-> FALSE, has_response |-> TRUE, videos |-> vs] :
             vs \in VideoLists(n)}

IdleWorker ==
    [pc |-> "idle", media_item_id |-> NONE, raised_at |-> "none", exc |-> NONE, rewritten |-> FALSE,
     elapsed |-> 0, op |-> NoOp, i |-> 0, thumbs |-> << >>, polls |-> 0,
     submits |-> 0, art_failed |-> {}, early_return |-> FALSE]

IdleApi == [pc |-> "idle", req |-> [prompt |-> NONE, number_of_media |-> 0],
            placeholder |-> NoDoc]

\* MediaItemModel(id=..., status=PROCESSING, gcs_uris=[], ...) of
\* start_video_generation_job; thumbnail_uris defaults to []
Placeholder(id, req) ==
    [id |-> id, status |-> PROCESSING, original_prompt |-> req.prompt, prompt |-> NONE,
     gcs_uris |-> << >>, thumbnail_uris |-> << >>, num_media |-> 0,
     generation_time |-> 0, error_message |-> NONE]

\* variant: the response is built from the document re-read from the store
PlaceholderResponseFromStore(item, stored) ==
    [id |-> item.id, status |-> stored.status, gcs_uris |-> stored.gcs_uris,
     thumbnail_uris |-> stored.thumbnail_uris, presigned_urls |-> << >>,
     presigned_thumbnail_urls |-> << >>]

\* MediaItemResponse(**placeholder_item.model_dump(), presigned_urls=[],
\* presigned_thumbnail_urls=[]): built from the local placeholder object
PlaceholderResponse(item, stored) ==
    [id |-> item.id, status |-> item.status, gcs_uris |-> item.gcs_uris,
     thumbnail_uris |-> item.thumbnail_uris, presigned_urls |-> << >>,
     presigned_thumbnail_urls |-> << >>]

\* BaseRepository.update: no document, no write; else the named fields are
\* replaced and the others kept
Update(d, item_id, data) ==
    IF d = NoDoc \/ d.id # item_id THEN d
    ELSE [f \in DOMAIN d |-> IF f \in DOMAIN data THEN data[f] ELSE d[f]]

UpdateLog(d, item_id, data) ==
    IF d = NoDoc \/ d.id # item_id THEN writes ELSE Append(writes, data.status)

\* the URIs of the generated videos that carry one, in the remote order
RECURSIVE UrisOf(_)
UrisOf(vs) ==
    IF vs = << >> THEN << >>
    ELSE IF Head(vs) # NoUri THEN <<Head(vs)>> \o UrisOf(Tail(vs))
         ELSE UrisOf(Tail(vs))

\* variant: the status is set to COMPLETED without the object references
CompletedUpdateDataNoUris(w) ==
    [status |-> COMPLETED, prompt |-> "rewritten", thumbnail_uris |-> w.thumbs,
     generation_time |-> w.elapsed, num_media |-> Len(UrisOf(w.op.videos))]

\* update_data of the worker on success
CompletedUpdateData(w) ==
    [status |-> COMPLETED, prompt |-> "rewritten", gcs_uris |-> UrisOf(w.op.videos),
     thumbnail_uris |-> w.thumbs, generation_time |-> w.elapsed,
     num_media |-> Len(UrisOf(w.op.videos))]

\* variant: the handler records a fixed text instead of str(e)
ErrorUpdateDataGeneric(w) == [status |-> FAILED, error_message |-> "Video generation failed"]

\* error_update_data of the worker's exception handler
ErrorUpdateData(w) == [status |-> FAILED, error_message |-> w.exc]

\* an exception raised inside the inner try: control passes to `except Exception as e`
Raise(w, where, msg) == [w EXCEPT !.pc = "handler", !.raised_at = where, !.exc = msg]

(* ---- request process: start_video_generation_job ---- *)

\* steps 1-3: uuid, placeholder, media_repo.save (which may raise)
StartJob ==
    /\ api.pc = "idle"
    /\ \E id \in {"m1", "m2"}, ok \in BOOLEAN :
       \E req \in [prompt : {"a red bicycle"}, number_of_media : 1..MaxVideos] :
         IF ok
         THEN /\ doc' = Placeholder(id, req)
              /\ writes' = Append(writes, PROCESSING)
              /\ api' = [pc |-> "saved", req |-> req, placeholder |-> Placeholder(id, req)]
         ELSE /\ api' = [api EXCEPT !.pc = "error"]
              /\ UNCHANGED <<doc, writes>>
    /\ UNCHANGED <<resp, worker, observed, pageVars, auxVars>>

\* variant: the worker is submitted whether or not the save returned
DispatchWithoutSave ==
    /\ api.pc \in {"saved", "error"}
    /\ api' = [api EXCEPT !.pc = IF api.pc = "saved" THEN "queued" ELSE "raised"]
    /\ worker' = [worker EXCEPT
                    !.pc = "start",
                    !.media_item_id = IF api.placeholder = NoDoc THEN "m1"
                                      ELSE api.placeholder.id]
    /\ UNCHANGED <<doc, writes, resp, observed, pageVars, auxVars>>

\* step 4: executor.submit(_process_video_in_background, ...)
Dispatch ==
    /\ api.pc = "saved"
    /\ api' = [api EXCEPT !.pc = "queued"]
    /\ worker' = [worker EXCEPT !.pc = "start", !.media_item_id = api.placeholder.id]
    /\ UNCHANGED <<doc, writes, resp, observed, pageVars, auxVars>>

\* step 5: return the placeholder
ReturnResponse ==
    /\ api.pc = "queued"
    /\ resp' = PlaceholderResponse(api.placeholder, doc)
    /\ api' = [api EXCEPT !.pc = "returned"]
    /\ UNCHANGED <<doc, writes, worker, observed, pageVars, auxVars>>

\* get-by-id by a polling client
GetById ==
    /\ doc # NoDoc
    /\ observed' = doc.status
    /\ observed' # observed
    /\ UNCHANGED <<doc, writes, api, resp, worker, pageVars, auxVars>>

(* ---- worker process: _process_video_in_background ---- *)

\* logging setup, MediaRepository(), GeminiService(), GcsService(): outside
\* the inner try, so an exception reaches only the outer handler, which logs
WorkerSetup ==
    /\ worker.pc = "start"
    /\ \E ok \in BOOLEAN :
         worker' = IF ok THEN [worker EXCEPT !.pc = "init"]
                   ELSE [worker EXCEPT !.pc = "done", !.raised_at = "deps"]
    /\ UNCHANGED <<doc, writes, api, resp, observed, pageVars, auxVars>>

\* GenAIModelSetup.init(), ConfigService()
WorkerInit ==
    /\ worker.pc = "init"
    /\ \/ worker' = [worker EXCEPT !.pc = "rewrite"]
       \/ \E msg \in ExcMsgs : worker' = Raise(worker, "init", msg)
    /\ UNCHANGED <<doc, writes, api, resp, observed, pageVars, auxVars>>

\* gemini_service.enhance_prompt_from_dto; request_dto.prompt = rewritten_prompt
WorkerRewrite ==
    /\ worker.pc = "rewrite"
    /\ \/ worker' = [worker EXCEPT !.pc = "submit", !.rewritten = TRUE]
       \/ \E msg \in ExcMsgs : worker' = Raise(worker, "rewrite", msg)
    /\ UNCHANGED <<doc, writes, api, resp, observed, pageVars, auxVars>>

\* variant: the submission is retried up to 3 attempts before the handler runs
SubmitRaisedRetry(w, msg) ==
    IF w.submits + 1 < 3
    THEN [w EXCEPT !.submits = @ + 1, !.elapsed = @ + 1]
    ELSE Raise([w EXCEPT !.submits = @ + 1, !.elapsed = @ + 1], "submit", msg)

\* client.models.generate_videos raised: no retry around the call, the
\* exception goes to the handler
SubmitRaised(w, msg) == Raise([w EXCEPT !.submits = @ + 1, !.elapsed = @ + 1], "submit", msg)

\* start_time = time.monotonic(); operation = client.models.generate_videos(...)
WorkerSubmit ==
    /\ worker.pc = "submit"
    /\ \/ \E op \in {NoOp} \cup DoneOps(api.req.number_of_media) :
            worker' = [worker EXCEPT !.pc = "poll", !.op = op, !.submits = @ + 1,
                                     !.elapsed = @ + 1]
       \/ \E msg \in ExcMsgs : worker' = SubmitRaised(worker, msg)
    /\ UNCHANGED <<doc, writes, api, resp, observed, pageVars, auxVars>>

\* client.operations.get raised inside the polling loop
PollRaised(w, msg) ==
    Raise([w EXCEPT !.polls = @ + 1, !.elapsed = @ + PollInterval + 1], "poll", msg)

\* while not operation.done: time.sleep(10); operation = client.operations.get(operation)
WorkerPoll ==
    /\ worker.pc = "poll"
    /\ ~worker.op.done
    /\ worker.polls < MaxPolls
    /\ \/ \E op \in {NoOp} \cup DoneOps(api.req.number_of_media) :
            worker' = [worker EXCEPT !.op = op, !.polls = @ + 1,
                                     !.elapsed = @ + PollInterval + 1]
       \/ \E msg \in ExcMsgs : worker' = PollRaised(worker, msg)
    /\ UNCHANGED <<doc, writes, api, resp, observed, pageVars, auxVars>>

\* variant: the loop is left without waiting for operation.done
WorkerCheckWithoutDone ==
    /\ worker.pc = "poll"
    /\ worker' =
         IF worker.op.error THEN Raise(worker, "operr", OpErrorMsg)
         ELSE IF ~worker.op.has_response \/ worker.op.videos = << >>
              THEN [worker EXCEPT !.pc = "done", !.early_return = TRUE]
              ELSE [worker EXCEPT !.pc = "artifact", !.i = 1]
    /\ UNCHANGED <<doc, writes, api, resp, observed, pageVars, auxVars>>

\* after the loop: if operation.error: raise; if not operation.response or
\* not generated_videos: return None
WorkerCheck ==
    /\ worker.pc = "poll"
    /\ worker.op.done
    /\ worker' =
         IF worker.op.error THEN Raise(worker, "operr", OpErrorMsg)
         ELSE IF ~worker.op.has_response \/ worker.op.videos = << >>
              THEN [worker EXCEPT !.pc = "done", !.early_return = TRUE]
              ELSE [worker EXCEPT !.pc = "artifact", !.i = 1]
    /\ UNCHANGED <<doc, writes, api, resp, observed, pageVars, auxVars>>

\* one iteration of `for generated_video in operation.response.generated_videos`
\*   d: gcs_service.download_from_gcs returns the path, returns None (NotFound,
\*      GoogleAPICallError are caught there), or raises anything else
\*   t: generate_thumbnail returns a path or None
\*   u: upload_file_to_gcs returns the URI, returns None (-> ""), or raises
\*      (caught by the worker's try/except around the upload)
\*   c: shutil.rmtree(temp_dir) in the finally block succeeds or raises
ProcessArtifact(w, d, t, u, c, msg) ==
    LET v == w.op.videos[w.i]
        w1 == [w EXCEPT !.elapsed = @ + 1]
        thumbs1 == IF u = "uri" THEN Append(w.thumbs, ThumbUri(v))
                   ELSE IF u = "none" THEN Append(w.thumbs, EmptyUri)
                   ELSE w.thumbs
    IN  IF v = NoUri THEN [w EXCEPT !.i = @ + 1]
        ELSE IF d = "raise" THEN Raise([w1 EXCEPT !.art_failed = @ \cup {w.i}], "download", msg)
        ELSE IF d = "none" \/ t = "none"
             THEN [w1 EXCEPT !.i = @ + 1, !.art_failed = @ \cup {w.i}]
        ELSE IF c = "raise"
             THEN Raise([w1 EXCEPT !.thumbs = thumbs1, !.art_failed = @ \cup {w.i}],
                        "cleanup", msg)
        ELSE [w1 EXCEPT !.i = @ + 1, !.thumbs = thumbs1,
                        !.art_failed = IF u = "uri" THEN @ ELSE @ \cup {w.i}]

WorkerArtifact ==
    /\ worker.pc = "artifact"
    /\ worker.i <= Len(worker.op.videos)
    /\ \E d \in {"ok", "none", "raise"}, t \in {"ok", "none"},
          u \in {"uri", "none", "raise"}, c \in {"ok", "raise"}, msg \in ExcMsgs :
         worker' = ProcessArtifact(worker, d, t, u, c, msg)
    /\ UNCHANGED <<doc, writes, api, resp, observed, pageVars, auxVars>>

\* media_repo.update(media_item_id, update_data): the write, then the re-read
\* of the document (get_by_id, model_validate), which may raise; that
\* exception is raised inside the inner try and reaches the handler
WorkerComplete ==
    /\ worker.pc = "artifact"
    /\ worker.i > Len(worker.op.videos)
    /\ doc' = Update(doc, worker.media_item_id, CompletedUpdateData(worker))
    /\ writes' = UpdateLog(doc, worker.media_item_id, CompletedUpdateData(worker))
    /\ \/ worker' = [worker EXCEPT !.pc = "done"]
       \/ \E msg \in ExcMsgs : worker' = Raise(worker, "reread", msg)
    /\ UNCHANGED <<api, resp, observed, pageVars, auxVars>>

\* except Exception as e: media_repo.update(media_item_id, error_update_data);
\* an exception of this update's re-read reaches the outer handler, which logs
WorkerHandler ==
    /\ worker.pc = "handler"
    /\ doc' = Update(doc, worker.media_item_id, ErrorUpdateData(worker))
    /\ writes' = UpdateLog(doc, worker.media_item_id, ErrorUpdateData(worker))
    /\ worker' = [worker EXCEPT !.pc = "done"]
    /\ UNCHANGED <<api, resp, observed, pageVars, auxVars>>

JobInit ==
    /\ doc = NoDoc
    /\ writes = << >>
    /\ api = IdleApi
    /\ resp = NoResp
    /\ worker = IdleWorker
    /\ observed = NONE

JobNext ==
    \/ StartJob
    \/ Dispatch
    \/ ReturnResponse
    \/ GetById
    \/ WorkerSetup
    \/ WorkerInit
    \/ WorkerRewrite
    \/ WorkerSubmit
    \/ WorkerPoll
    \/ WorkerCheck
    \/ WorkerArtifact
    \/ WorkerComplete
    \/ WorkerHandler


(***************************************************************************)
(* Part II - cursor-paginated repository queries                           *)
(*                                                                         *)
(* A document is identified by its id and carries created_at and two       *)
(* filterable fields: owner (users.email, user_assets.user_id,             *)
(* media_library.user_email, media_template_library.brand) and kind        *)
(* (a role of users.roles, mime_type of the other collections).            *)
(* Firestore orders a query that has order_by("created_at", DESCENDING)    *)
(* by created_at and then by document id in the same direction, and        *)
(* start_after(snapshot) positions the query strictly after the snapshot's *)
(* (created_at, id).                                                       *)
(***************************************************************************)
\* number of documents a collection holds at most
MaxDocs == 2
\* created_at takes the values 1..MaxTime, so equal timestamps occur
MaxTime == 2
\* largest page size explored (BaseSearchDto allows 1..48)
MaxLimit == 2

\* start_after: Optional[str] = None
NoCursor == 0
NoFilter == ""
DocIds == 1..MaxDocs
\* ids a client can send as start_after: those of DocIds and one that never
\* names a document
CursorIds == 1..(MaxDocs + 1)
Owners == {"a", "b"}
DocFields == [created_at : 1..MaxTime, owner : Owners, kind : {"x", "y"}]
Collections == UNION {[S -> DocFields] : S \in SUBSET DocIds}

\* limit as the request type of each repository lets it through:
\* BaseSearchDto and TemplateSearchDto declare ge=1; SourceAssetSearchDto
\* declares `limit: int = 20` without bounds
LimitsOf(repo) == IF repo = "user_assets" THEN 0..MaxLimit ELSE 1..MaxLimit

SearchDtos(repo) ==
    [owner : {NoFilter, "a"}, kind : {NoFilter, "x"}, limit : LimitsOf(repo),
     start_after : {NoCursor} \cup CursorIds]

\* base_query.where(owner == ...).where(kind == ...), each only `if` set
Where(c, dto) ==
    {d \in DOMAIN c : /\ dto.owner # NoFilter => c[d].owner = dto.owner
                      /\ dto.kind # NoFilter => c[d].kind = dto.kind}

\* position of d before e under created_at DESC, __name__ DESC
Before(c, d, e) ==
    \/ c[d].created_at > c[e].created_at
    \/ c[d].created_at = c[e].created_at /\ d > e

RECURSIVE OrderBy(_, _)
OrderBy(c, S) ==
    IF S = {} THEN << >>
    ELSE LET first == CHOOSE d \in S : \A e \in S \ {d} : Before(c, d, e)
         IN  <<first>> \o OrderBy(c, S \ {first})

\* collection_ref.document(id).get()
Snapshot(c, id) ==
    [exists |-> id \in DOMAIN c, id |-> id,
     created_at |-> IF id \in DOMAIN c THEN c[id].created_at ELSE 0]

\* variant: the cursor snapshot is used without checking that it exists
UseCursorAlways(snap) == TRUE

\* if last_doc_snapshot.exists:
UseCursor(snap) == snap.exists

\* variant: the cursor is the created_at value alone
StartAfterByValue(c, ordered, snap) ==
    SelectSeq(ordered, LAMBDA d : snap.created_at > c[d].created_at)

\* query.start_after(last_doc_snapshot)
StartAfter(c, ordered, snap) ==
    SelectSeq(ordered, LAMBDA d : \/ snap.created_at > c[d].created_at
                                  \/ /\ snap.created_at = c[d].created_at
                                     /\ snap.id > d)

\* query.limit(n).stream()
Limit(ordered, n) == SubSeq(ordered, 1, Min(n, Len(ordered)))

\* order_by, cursor, limit, stream: the documents of the page
PageOf(c, matching, dto) ==
    LET ordered == OrderBy(c, matching)
        positioned ==
            IF dto.start_after # NoCursor /\ UseCursor(Snapshot(c, dto.start_after))
            THEN StartAfter(c, ordered, Snapshot(c, dto.start_after))
            ELSE ordered
    IN  Limit(positioned, dto.limit)

\* next_page_cursor = None; if len(documents) == limit: documents[-1].id
\* (documents[-1] of an empty list raises IndexError)
PaginationResponse(documents, total_count, limit) ==
    IF Len(documents) = limit
    THEN IF documents = << >>
         THEN [error |-> "IndexError", items |-> << >>, count |-> 0,
               next_page_cursor |-> NoCursor, paginated |-> TRUE]
         ELSE [error |-> "none", items |-> documents, count |-> total_count,
               next_page_cursor |-> documents[Len(documents)], paginated |-> TRUE]
    ELSE [error |-> "none", items |-> documents, count |-> total_count,
          next_page_cursor |-> NoCursor, paginated |-> TRUE]

\* the repositories that return the bare list of the page
ListResponse(documents) ==
    [error |-> "none", items |-> documents, count |-> 0,
     next_page_cursor |-> NoCursor, paginated |-> FALSE]

UserRepositoryQuery(c, dto) ==
    LET base_query == Where(c, dto)
        total_count == Cardinality(base_query)
    IN  PaginationResponse(PageOf(c, base_query, dto), total_count, dto.limit)

UserAssetRepositoryQuery(c, dto) ==
    LET base_query == Where(c, dto)
        total_count == Cardinality(base_query)
    IN  PaginationResponse(PageOf(c, base_query, dto), total_count, dto.limit)

MediaRepositoryQuery(c, dto) == ListResponse(PageOf(c, Where(c, dto), dto))

MediaTemplateRepositoryQuery(c, dto) == ListResponse(PageOf(c, Where(c, dto), dto))

RunQuery(repo, c, dto) ==
    CASE repo = "users" -> UserRepositoryQuery(c, dto)
      [] repo = "user_assets" -> UserAssetRepositoryQuery(c, dto)
      [] repo = "media" -> MediaRepositoryQuery(c, dto)
      [] repo = "templates" -> MediaTemplateRepositoryQuery(c, dto)

NoResult == ListResponse(<< >>)
IdleTrav ==
    [pc |-> "idle", repo |-> "users",
     dto |-> [owner |-> NoFilter, kind |-> NoFilter, limit |-> 1, start_after |-> NoCursor],
     start |-> NoCursor, acc |-> << >>, counts |-> {}, pages |-> 0, last |-> NoResult]

\* a client issues its first request: any filter, limit and start_after the
\* request type accepts
BeginTraversal ==
    /\ trav.pc = "idle"
    /\ \E repo \in {"users", "user_assets", "media", "templates"} :
       \E dto \in SearchDtos(repo) :
         trav' = [trav EXCEPT !.pc = "running", !.repo = repo, !.dto = dto,
                              !.start = dto.start_after]
    /\ UNCHANGED <<jobVars, coll, auxVars>>

\* the query runs; the client takes next_page_cursor as its next start_after
FetchPage ==
    /\ trav.pc = "running"
    /\ LET r == RunQuery(trav.repo, coll, trav.dto)
       IN  trav' =
             IF r.error # "none" THEN [trav EXCEPT !.pc = "failed", !.last = r]
             ELSE [trav EXCEPT
                     !.pc = IF r.next_page_cursor = NoCursor THEN "finished" ELSE "running",
                     !.dto = [@ EXCEPT !.start_after = r.next_page_cursor],
                     !.acc = @ \o r.items, !.counts = @ \cup {r.count},
                     !.pages = @ + 1, !.last = r]
    /\ UNCHANGED <<jobVars, coll, auxVars>>

PageNext ==
    \/ BeginTraversal
    \/ FetchPage

(***************************************************************************)
(* Part III - search requests                                              *)
(*                                                                         *)
(* A request body is validated by pydantic against the request type of the *)
(* endpoint; the controller of the source-asset search then scopes the     *)
(* request by the caller's role; the service runs the repository query.    *)
(***************************************************************************)
\* the declaration of limit in each request type:
\* BaseSearchDto, inherited by its subclasses: Field(default=12, ge=1, le=48)
\* TemplateSearchDto: Field(default=20, ge=1, le=100)
\* SourceAssetSearchDto: limit: int = 20
LimitField(cls) ==
    CASE cls \in {"GallerySearchDto", "UserSearchDto", "BrandGuidelineSearchDto"} ->
           [bounded |-> TRUE, ge |-> 1, le |-> 48]
      [] cls = "TemplateSearchDto" -> [bounded |-> TRUE, ge |-> 1, le |-> 100]
      [] cls = "SourceAssetSearchDto" -> [bounded |-> FALSE, ge |-> 0, le |-> 0]

\* pydantic's validation of limit: the ge/le constraints where declared
ValidLimit(cls, limit) ==
    LET f == LimitField(cls)
    IN  f.bounded => (limit >= f.ge /\ limit <= f.le)

\* the admin-only fields of SourceAssetSearchDto, all None
NoAdminFilters ==
    [user_email |-> NoFilter, scope |-> NoFilter,
     asset_type |-> NoFilter, original_filename |-> NoFilter]

\* request bodies: the limits are zero, small ones and both sides of each
\* maximum; owner is the owner-like filter of the request type
\* (user_email, email, brand, workspace_id); SourceAssetSearchDto has none
\* and carries the admin-only fields instead
SearchBodies(cls) ==
    [limit : {0, 1, MaxLimit} \cup
             UNION {{LimitField(c).le, LimitField(c).le + 1} :
                       c \in {"UserSearchDto", "TemplateSearchDto"}},
     start_after : {NoCursor, 1}, kind : {NoFilter, "x"},
     owner : IF cls = "SourceAssetSearchDto" THEN {NoFilter} ELSE {NoFilter, "a"},
     adm : IF cls = "SourceAssetSearchDto"
           THEN [user_email : {NoFilter, "b"}, scope : {NoFilter, "system"},
                 asset_type : {NoFilter, "vto_top"},
                 original_filename : {NoFilter, "f.png"}]
           ELSE {NoAdminFilters}]

\* variant: the search is not scoped to the caller
TargetUserIdUnscoped(caller) == NoFilter

\* target_user_id = None; if not is_admin: target_user_id = current_user.id
TargetUserId(caller) == IF ~caller.admin THEN caller.id ELSE NoFilter

\* list_source_assets: a non-admin's admin-only fields are set to None; an
\* admin's user_email is left in place and not acted upon (`pass`)
ScopedSearchDto(body, caller) ==
    IF ~caller.admin THEN [body EXCEPT !.adm = NoAdminFilters] ELSE body

\* BaseRepository.query(search_dto, extra_filters) of the brand guidelines:
\* filter, count, order, cursor, limit, next_page_cursor
BrandGuidelineRepositoryQuery(c, dto) ==
    LET base_query == Where(c, dto)
    IN  PaginationResponse(PageOf(c, base_query, dto), Cardinality(base_query), dto.limit)

\* the repository query behind each request type
SearchQuery(cls, c, dto) ==
    CASE cls = "GallerySearchDto" -> MediaRepositoryQuery(c, dto)
      [] cls = "UserSearchDto" -> UserRepositoryQuery(c, dto)
      [] cls = "TemplateSearchDto" -> MediaTemplateRepositoryQuery(c, dto)
      [] cls = "SourceAssetSearchDto" -> UserAssetRepositoryQuery(c, dto)
      [] cls = "BrandGuidelineSearchDto" -> BrandGuidelineRepositoryQuery(c, dto)

IdleSearch ==
    [pc |-> "idle", cls |-> "UserSearchDto", caller |-> [id |-> "a", admin |-> FALSE],
     body |-> [limit |-> 1, start_after |-> NoCursor, kind |-> NoFilter,
               owner |-> NoFilter, adm |-> NoAdminFilters],
     dto |-> [limit |-> 1, start_after |-> NoCursor, kind |-> NoFilter,
              owner |-> NoFilter, adm |-> NoAdminFilters],
     target |-> NoFilter, last |-> NoResult]

restOfSearch == <<jobVars, coll, trav, enr, up, ws, bg, store, moreVars>>

\* the request arrives from a caller (current_user: the id, and whether
\* UserRoleEnum.ADMIN is among the roles); FastAPI validates the body and answers 422 itself
\* when validation fails
SearchRequest ==
    /\ search.pc = "idle"
    /\ \E cls \in {"GallerySearchDto", "UserSearchDto", "BrandGuidelineSearchDto",
                    "TemplateSearchDto", "SourceAssetSearchDto"} :
       \E body \in SearchBodies(cls) : \E caller \in [id : Owners, admin : BOOLEAN] :
         search' = [search EXCEPT
                      !.pc = IF ValidLimit(cls, body.limit) THEN "validated" ELSE "rejected",
                      !.cls = cls, !.body = body, !.dto = body, !.caller = caller]
    /\ UNCHANGED restOfSearch

\* controller, service and repository: scope the request and run the query
SearchRun ==
    /\ search.pc = "validated"
    /\ LET scoped == IF search.cls = "SourceAssetSearchDto"
                     THEN ScopedSearchDto(search.body, search.caller)
                     ELSE search.body
           target == IF search.cls = "SourceAssetSearchDto"
                     THEN TargetUserId(search.caller)
                     ELSE search.body.owner
       IN  search' = [search EXCEPT
                        !.pc = "done", !.dto = scoped, !.target = target,
                        !.last = SearchQuery(search.cls, coll,
                                    [owner |-> target, kind |-> scoped.kind,
                                     limit |-> scoped.limit,
                                     start_after |-> scoped.start_after])]
    /\ UNCHANGED restOfSearch

SearchNext ==
    \/ SearchRequest
    \/ SearchRun

(***************************************************************************)
(* Part IV - response enrichment                                           *)
(*                                                                         *)
(* One signing task is started per object reference                        *)
(* (asyncio.to_thread(generate_presigned_url, uri)) and the tasks are      *)
(* joined with asyncio.gather, which returns the results in the order of   *)
(* its arguments whatever the order of completion, and raises the first    *)
(* exception of a task to the awaiting caller.                             *)
(***************************************************************************)
\* largest number of entries of gcs_uris explored
MaxRefs == 2
\* largest number of further items on a gallery page explored
MaxOthers == 1

\* the link generate_presigned_url returns for a reference
SignedUrl(u) == 1000 + u

\* the record whose references are signed: gcs_uris and thumbnail_uris, either
\* of which can hold "" (a failed thumbnail upload is stored as "")
MainItems(op) ==
    [gcs_uris : SeqsUpTo((1..MaxRefs) \cup {EmptyUri}, MaxRefs),
     thumbnail_uris : IF op = "_create_brand_guideline_response" THEN {<< >>}
                      ELSE SeqsUpTo({EmptyUri, ThumbUri(1)}, 1)]
\* the items of a response: the record, and on a gallery page further items
\* with one reference each
Pages(op) ==
    {<<m>> \o [k \in 1..n |-> [gcs_uris |-> <<1>>, thumbnail_uris |-> << >>]] :
        m \in MainItems(op), n \in IF op = "get_paginated_gallery" THEN 0..MaxOthers ELSE {0}}

\* `for uri in all_gcs_uris if uri` in the gallery; every uri elsewhere
SkipsEmpty(op) == op \in {"get_media_by_id", "get_paginated_gallery"}

RefsOf(item, list) == IF list = "main" THEN item.gcs_uris ELSE item.thumbnail_uris

\* the signing tasks created for the items of a response
TasksOf(op, items) ==
    {t \in [item : DOMAIN items, list : {"main", "thumb"}, pos : 1..MaxRefs] :
        /\ t.pos \in DOMAIN RefsOf(items[t.item], t.list)
        /\ SkipsEmpty(op) => RefsOf(items[t.item], t.list)[t.pos] # EmptyUri}

\* the result list of asyncio.gather(*tasks): one link per task, in the order
\* in which the tasks were created
LinksOf(op, refs) ==
    LET signed == IF SkipsEmpty(op) THEN SelectSeq(refs, LAMBDA u : u # EmptyUri) ELSE refs
    IN  [k \in DOMAIN signed |-> SignedUrl(signed[k])]

\* MediaItemResponse(**item.model_dump(), presigned_urls=...,
\* presigned_thumbnail_urls=...)
EnrichedItem(op, item) ==
    [gcs_uris |-> item.gcs_uris, thumbnail_uris |-> item.thumbnail_uris,
     presigned_urls |-> LinksOf(op, item.gcs_uris),
     presigned_thumbnail_urls |-> LinksOf(op, item.thumbnail_uris)]

NoTask == [item |-> 0, list |-> "none", pos |-> 0]
IdleEnr ==
    [pc |-> "idle", op |-> "get_media_by_id", items |-> << >>, pending |-> {},
     first |-> NoTask, raised |-> NoTask, result |-> [error |-> "pending", data |-> << >>]]

restOfEnr == <<jobVars, coll, trav, search, up, ws, bg, store, moreVars>>

\* the record (or the page) is read and one signing task per reference is
\* started; a get-by-id of an id without a document returns None
EnrichStart ==
    /\ enr.pc = "idle"
    /\ \E op \in {"get_media_by_id", "get_paginated_gallery",
                  "get_media_item_with_presigned_urls",
                  "_create_brand_guideline_response"} :
         \/ \E items \in Pages(op) :
              enr' = [enr EXCEPT !.pc = "signing", !.op = op, !.items = items,
                                 !.pending = TasksOf(op, items)]
         \/ /\ op \in {"get_media_by_id", "get_media_item_with_presigned_urls"}
            /\ enr' = [enr EXCEPT !.pc = "done", !.op = op,
                                  !.result = [error |-> "not_found", data |-> << >>]]
    /\ UNCHANGED restOfEnr

\* a signing task completes with its link; the tasks complete in any order
SignReturns ==
    /\ enr.pc = "signing"
    /\ \E t \in enr.pending :
         enr' = [enr EXCEPT !.pending = @ \ {t},
                            !.first = IF @ = NoTask THEN t ELSE @]
    /\ UNCHANGED restOfEnr

\* generate_presigned_url raises in one task: gather raises it to
\* _create_gallery_response, whose caller has no handler either
SignRaises ==
    /\ enr.pc = "signing"
    /\ \E t \in enr.pending :
         enr' = [enr EXCEPT !.pc = "done", !.raised = t,
                            !.result = [error |-> "sign", data |-> << >>]]
    /\ UNCHANGED restOfEnr

\* all tasks have completed: the response is assembled from gather's lists
EnrichAssemble ==
    /\ enr.pc = "signing"
    /\ enr.pending = {}
    /\ enr' = [enr EXCEPT
                 !.pc = "done",
                 !.result = [error |-> "none",
                             data |-> [i \in DOMAIN enr.items |->
                                         EnrichedItem(enr.op, enr.items[i])]]]
    /\ UNCHANGED restOfEnr

EnrichNext ==
    \/ EnrichStart
    \/ SignReturns
    \/ SignRaises
    \/ EnrichAssemble

(***************************************************************************)
(* Part V - SourceAssetService.upload_asset                                *)
(*                                                                         *)
(* Two requests run upload_asset; a request gives way to the other one at  *)
(* each call of a collaborator (the document store, the bucket, the        *)
(* upscale model).  The collaborators fail where upload_asset has a branch *)
(* for the failure: store_to_gcs returning None, the upscale raising.      *)
(***************************************************************************)
\* number of upload_asset calls explored
MaxUploads == 2

UploadProcs == {1, 2}
\* await file.read() of an empty upload
EmptyFile == ""
\* hashlib.sha256(contents).hexdigest()
Sha256(contents) == <<"sha256", contents>>
\* scope: Optional[AssetScopeEnum] = None
NoScope == "None"
PRIVATE == "private"
SYSTEM == "system"
NoAsset == 0

\* variant: the query matches the user's documents of any other content
FindByHashNegated(docs, user_id, file_hash) ==
    {d \in docs : d.user_id = user_id /\ d.file_hash # file_hash}

\* collection_ref.where("user_id", "==", user_id).where("file_hash", "==",
\* file_hash): the documents the query matches; limit(1) returns one of them
FindByHash(docs, user_id, file_hash) ==
    {d \in docs : d.user_id = user_id /\ d.file_hash = file_hash}

\* SourceAssetModel(user_id=..., gcs_uri=..., file_hash=..., scope=...,
\* asset_type=...): the call passes no workspace_id.  SourceAssetModel as
\* declared in source_asset_model.py requires workspace_id, and then the call
\* raises pydantic's ValidationError; the service is written for a model
\* without that field (its repository module is not part of the sources),
\* and then the call returns the document.  Both outcomes are kept in
\* UploadSave.

\* HTTP status of the responses and HTTPExceptions of upload_asset
OK == 200
BAD_REQUEST == 400
FORBIDDEN == 403
SERVER_ERROR == 500

IdleUpload ==
    [pc |-> "idle", user |-> [id |-> "a", admin |-> FALSE], contents |-> EmptyFile,
     scope |-> NoScope, had |-> {}, asset |-> NoAsset, final |-> "none",
     stores |-> 0, upscales |-> 0, saves |-> 0, result |-> [status |-> 0, id |-> NoAsset]]
IdleUp ==
    [docs |-> {}, objects |-> 0, started |-> 0, req |-> [p \in UploadProcs |-> IdleUpload]]

restOfUp == <<jobVars, coll, trav, search, enr, ws, bg, store, moreVars>>

\* contents = await file.read(); 400 for an empty file; file_hash
UploadBegin(p) ==
    /\ up.req[p].pc \in {"idle", "done"}
    /\ up.started < MaxUploads
    /\ \E user \in {[id |-> "a", admin |-> FALSE], [id |-> "b", admin |-> TRUE]} :
       \E contents \in {EmptyFile, "f1", "f2"} : \E scope \in {NoScope, SYSTEM} :
         LET r == [IdleUpload EXCEPT
                     !.user = user, !.contents = contents, !.scope = scope,
                     !.had = {d.id : d \in {e \in up.docs :
                                 e.user_id = user.id /\ e.file_hash = Sha256(contents)}}]
         IN  up' = [up EXCEPT
                      !.started = @ + 1,
                      !.req[p] = IF contents = EmptyFile
                                 THEN [r EXCEPT !.pc = "done",
                                                !.result = [status |-> BAD_REQUEST, id |-> NoAsset]]
                                 ELSE [r EXCEPT !.pc = "find"]]
    /\ UNCHANGED restOfUp

\* existing_asset = repo.find_by_hash(user.id, file_hash)
UploadFindByHash(p) ==
    /\ up.req[p].pc = "find"
    /\ LET r == up.req[p]
           docs == FindByHash(up.docs, r.user.id, Sha256(r.contents))
       IN  IF docs = {}
           THEN up' = [up EXCEPT !.req[p].pc = "store"]
           ELSE \E d \in docs :
                  up' = [up EXCEPT !.req[p].pc = "respond", !.req[p].asset = d.id]
    /\ UNCHANGED restOfUp

\* original_gcs_uri = gcs_service.store_to_gcs(...); 500 when it returns None
UploadStore(p) ==
    /\ up.req[p].pc = "store"
    /\ \/ up' = [up EXCEPT !.objects = @ + 1, !.req[p].stores = @ + 1,
                           !.req[p].pc = "upscale", !.req[p].final = "original"]
       \/ up' = [up EXCEPT !.req[p].pc = "done",
                           !.req[p].result = [status |-> SERVER_ERROR, id |-> NoAsset]]
    /\ UNCHANGED restOfUp

\* imagen_service.upscale_image(upscale_dto): the upscaled image is a new
\* object; if the call raises or returns nothing the original URI is kept
UploadUpscale(p) ==
    /\ up.req[p].pc = "upscale"
    /\ \/ up' = [up EXCEPT !.objects = @ + 1, !.req[p].upscales = @ + 1,
                           !.req[p].pc = "build", !.req[p].final = "upscaled"]
       \/ up' = [up EXCEPT !.req[p].upscales = @ + 1, !.req[p].pc = "build"]
    /\ UNCHANGED restOfUp

\* the scope check (403 for a non-admin with a non-private scope), the
\* construction of the SourceAssetModel and repo.save(new_asset)
UploadSave(p) ==
    /\ up.req[p].pc = "build"
    /\ LET r == up.req[p]
           id == Cardinality(up.docs) + 1
       IN  IF ~r.user.admin /\ r.scope # NoScope /\ r.scope # PRIVATE
           THEN up' = [up EXCEPT !.req[p].pc = "done",
                                 !.req[p].result = [status |-> FORBIDDEN, id |-> NoAsset]]
           ELSE \E outcome \in {"built", "ValidationError"} :
                  IF outcome = "built"
                  THEN up' = [up EXCEPT
                                !.docs = @ \cup {[id |-> id, user_id |-> r.user.id,
                                                  file_hash |-> Sha256(r.contents),
                                                  gcs_uri |-> r.final,
                                                  scope |-> IF r.user.admin /\ r.scope # NoScope
                                                            THEN r.scope ELSE PRIVATE]},
                                !.req[p].saves = @ + 1, !.req[p].asset = id,
                                !.req[p].pc = "respond"]
                  ELSE up' = [up EXCEPT !.req[p].pc = "done",
                                        !.req[p].result = [status |-> SERVER_ERROR, id |-> NoAsset]]
    /\ UNCHANGED restOfUp

\* return await self._create_asset_response(asset)
UploadRespond(p) ==
    /\ up.req[p].pc = "respond"
    /\ up' = [up EXCEPT !.req[p].pc = "done",
                        !.req[p].result = [status |-> OK, id |-> up.req[p].asset]]
    /\ UNCHANGED restOfUp

UploadNext ==
    \E p \in UploadProcs :
        \/ UploadBegin(p)
        \/ UploadFindByHash(p)
        \/ UploadStore(p)
        \/ UploadUpscale(p)
        \/ UploadSave(p)
        \/ UploadRespond(p)

(***************************************************************************)
(* Part VI - WorkspaceRepository.add_member_to_workspace                   *)
(*                                                                         *)
(* One workspaces document; firestore.ArrayUnion appends to the stored     *)
(* array each given element that the array does not hold yet, comparing    *)
(* whole elements.                                                         *)
(***************************************************************************)
\* number of add_member_to_workspace calls explored
MaxInvites == 3

\* WorkspaceMember: user_id, email, role
WorkspaceMembers ==
    [user_id : {"u1", "u2"}, email : {"x@example.com", "y@example.com"},
     role : {"viewer", "editor"}]

\* firestore.ArrayUnion([x]) applied to the stored array s
ArrayUnion(s, x) == IF \E k \in DOMAIN s : s[k] = x THEN s ELSE Append(s, x)

\* a workspace as created: without members, or with its owner as the member
WorkspaceDocs ==
    {[exists |-> FALSE, members |-> << >>, member_ids |-> << >>],
     [exists |-> TRUE, members |-> << >>, member_ids |-> << >>],
     [exists |-> TRUE,
      members |-> <<[user_id |-> "u1", email |-> "x@example.com", role |-> "owner"]>>,
      member_ids |-> <<"u1">>]}

restOfWs == <<jobVars, coll, trav, search, enr, up, bg, store, moreVars>>

\* workspace_ref.update({"members": ArrayUnion([member_dict]),
\* "member_ids": ArrayUnion([user_id])}), which raises NotFound for a
\* document that does not exist; then the re-read of the document
AddMemberToWorkspace(member, user_id) ==
    /\ ws.calls < MaxInvites
    /\ IF ws.doc.exists
       THEN ws' = [ws EXCEPT
                     !.doc.members = ArrayUnion(@, member),
                     !.doc.member_ids = ArrayUnion(@, user_id),
                     !.calls = @ + 1,
                     !.last = [raised |-> FALSE, returned |-> TRUE]]
       ELSE ws' = [ws EXCEPT !.calls = @ + 1,
                             !.last = [raised |-> TRUE, returned |-> FALSE]]
    /\ UNCHANGED restOfWs

WsIdle == [doc |-> [exists |-> FALSE, members |-> << >>, member_ids |-> << >>],
           calls |-> 0, last |-> [raised |-> FALSE, returned |-> FALSE]]

\* the caller passes the invited user's id together with the member entry
WsNext ==
    \E member \in WorkspaceMembers : AddMemberToWorkspace(member, member.user_id)

(***************************************************************************)
(* Part VII - BrandGuidelineService: create_and_process_guideline and      *)
(* delete_guideline                                                        *)
(*                                                                         *)
(* Two requests run interleaved, giving way at each call of a collaborator.*)
(* Workspace "w1" exists and is owned by user "a"; workspace "w2" does not *)
(* exist; user "r" is a system admin.                                      *)
(***************************************************************************)
\* number of create and delete calls explored
MaxGuidelineOps == 2

GuidelineProcs == {1, 2}
\* workspace_id: Optional[str] = None
NoWorkspace == "None"
GuidelineUsers ==
    {[id |-> "a", admin |-> FALSE], [id |-> "b", admin |-> FALSE],
     [id |-> "r", admin |-> TRUE]}
\* workspace_repo.get_by_id(workspace_id)
WorkspaceOf(workspace_id) ==
    IF workspace_id = "w1" THEN [exists |-> TRUE, owner_id |-> "a"]
    ELSE [exists |-> FALSE, owner_id |-> "none"]

NOT_FOUND == 404
NO_CONTENT == 204

\* the authorization check of create_and_process_guideline: 0 when it passes
CreateRejection(workspace_id, user) ==
    IF workspace_id # NoWorkspace
    THEN IF ~WorkspaceOf(workspace_id).exists THEN NOT_FOUND
         ELSE IF ~(user.admin \/ user.id = WorkspaceOf(workspace_id).owner_id)
              THEN FORBIDDEN ELSE 0
    ELSE IF ~user.admin THEN FORBIDDEN ELSE 0

\* the authorization check of delete_guideline: 0 when it passes
DeleteRejection(guideline, user) ==
    IF guideline.workspace_id = NoWorkspace
    THEN IF ~user.admin THEN FORBIDDEN ELSE 0
    ELSE IF ~WorkspaceOf(guideline.workspace_id).exists /\ ~user.admin THEN NOT_FOUND
         ELSE IF ~(user.admin \/ (/\ WorkspaceOf(guideline.workspace_id).exists
                                  /\ user.id = WorkspaceOf(guideline.workspace_id).owner_id))
              THEN FORBIDDEN ELSE 0

\* repo.query(BrandGuidelineSearchDto(workspace_id, limit=1), extra_filters=
\* [workspace_id == ...]).data: the newest guideline of the workspace, if any
ExistingGuidelines(docs, workspace_id) ==
    LET matching == {d \in docs : d.workspace_id = workspace_id}
    IN  IF matching = {} THEN << >>
        ELSE <<CHOOSE d \in matching : \A e \in matching : e.id <= d.id>>

IdleGuidelineReq ==
    [pc |-> "idle", op |-> "create", user |-> [id |-> "a", admin |-> FALSE],
     workspace_id |-> NoWorkspace, uri |-> 0, calls |-> 0, status |-> 0,
     target |-> [id |-> 0, workspace_id |-> NoWorkspace, uri |-> 0]]
IdleBg ==
    [docs |-> {}, objects |-> {}, uploaded |-> 0, saved |-> 0, started |-> 0,
     req |-> [p \in GuidelineProcs |-> IdleGuidelineReq]]

restOfBg == <<jobVars, coll, trav, search, enr, up, ws, store, moreVars>>

\* create_and_process_guideline is called; step 1, the authorization check
GuidelineCreate(p) ==
    /\ bg.req[p].pc \in {"idle", "done"}
    /\ bg.started < MaxGuidelineOps
    /\ \E workspace_id \in {NoWorkspace, "w1", "w2"} : \E user \in GuidelineUsers :
         LET r == [IdleGuidelineReq EXCEPT !.op = "create", !.user = user,
                                           !.workspace_id = workspace_id]
             rejection == CreateRejection(workspace_id, user)
         IN  bg' = [bg EXCEPT
                      !.started = @ + 1,
                      !.req[p] = IF rejection # 0
                                 THEN [r EXCEPT !.pc = "done", !.status = rejection]
                                 ELSE IF workspace_id # NoWorkspace
                                      THEN [r EXCEPT !.pc = "query"]
                                      ELSE [r EXCEPT !.pc = "upload"]]
    /\ UNCHANGED restOfBg

\* step 2: the query for an existing guideline of the workspace
GuidelineQuery(p) ==
    /\ bg.req[p].pc = "query"
    /\ LET data == ExistingGuidelines(bg.docs, bg.req[p].workspace_id)
       IN  bg' = IF data # << >>
                 THEN [bg EXCEPT !.req[p].pc = "delete_blobs", !.req[p].target = data[1]]
                 ELSE [bg EXCEPT !.req[p].pc = "upload"]
    /\ UNCHANGED restOfBg

\* delete_guideline is called: get_by_id and the authorization check
GuidelineDelete(p) ==
    /\ bg.req[p].pc \in {"idle", "done"}
    /\ bg.started < MaxGuidelineOps
    /\ \E guideline_id \in 1..MaxGuidelineOps : \E user \in GuidelineUsers :
         LET r == [IdleGuidelineReq EXCEPT !.op = "delete", !.user = user]
             found == {d \in bg.docs : d.id = guideline_id}
         IN  bg' = [bg EXCEPT
                      !.started = @ + 1,
                      !.req[p] =
                         IF found = {} THEN [r EXCEPT !.pc = "done", !.status = NO_CONTENT]
                         ELSE LET guideline == CHOOSE d \in found : TRUE
                                  rejection == DeleteRejection(guideline, user)
                              IN  IF rejection # 0
                                  THEN [r EXCEPT !.pc = "done", !.status = rejection]
                                  ELSE [r EXCEPT !.pc = "delete_blobs", !.target = guideline,
                                                 !.workspace_id = guideline.workspace_id]]
    /\ UNCHANGED restOfBg

\* _delete_guideline_and_assets: delete_blob_from_uri for every chunk
GuidelineDeleteBlobs(p) ==
    /\ bg.req[p].pc = "delete_blobs"
    /\ bg' = [bg EXCEPT !.objects = @ \ {bg.req[p].target.uri},
                        !.req[p].calls = @ + 1, !.req[p].pc = "delete_doc"]
    /\ UNCHANGED restOfBg

\* _delete_guideline_and_assets: repo.delete(guideline.id)
GuidelineDeleteDoc(p) ==
    /\ bg.req[p].pc = "delete_doc"
    /\ bg' = [bg EXCEPT
                !.docs = {d \in @ : d.id # bg.req[p].target.id},
                !.req[p].calls = @ + 1,
                !.req[p].pc = IF bg.req[p].op = "create" THEN "upload" ELSE "done",
                !.req[p].status = IF bg.req[p].op = "create" THEN 0 ELSE NO_CONTENT]
    /\ UNCHANGED restOfBg

\* file.read() and _split_and_upload_pdf; no URI: Exception
GuidelineUpload(p) ==
    /\ bg.req[p].pc = "upload"
    /\ \/ bg' = [bg EXCEPT !.uploaded = @ + 1, !.objects = @ \cup {bg.uploaded + 1},
                           !.req[p].uri = bg.uploaded + 1, !.req[p].calls = @ + 1,
                           !.req[p].pc = "extract"]
       \/ bg' = [bg EXCEPT !.req[p].calls = @ + 1, !.req[p].pc = "done",
                           !.req[p].status = SERVER_ERROR]
    /\ UNCHANGED restOfBg

\* variant: a failed extraction restores the guideline that was deleted
GuidelineExtractWithRollback(p) ==
    /\ bg.req[p].pc = "extract"
    /\ \/ bg' = [bg EXCEPT !.req[p].calls = @ + 1, !.req[p].pc = "save"]
       \/ bg' = [bg EXCEPT !.req[p].calls = @ + 1, !.req[p].pc = "done",
                           !.req[p].status = SERVER_ERROR,
                           !.docs = IF bg.req[p].target.id # 0
                                    THEN @ \cup {bg.req[p].target} ELSE @]
    /\ UNCHANGED restOfBg

\* extract_brand_info_from_pdf per chunk and aggregate_brand_info; nothing
\* extracted: Exception
GuidelineExtract(p) ==
    /\ bg.req[p].pc = "extract"
    /\ \/ bg' = [bg EXCEPT !.req[p].calls = @ + 1, !.req[p].pc = "save"]
       \/ bg' = [bg EXCEPT !.req[p].calls = @ + 1, !.req[p].pc = "done",
                           !.req[p].status = SERVER_ERROR]
    /\ UNCHANGED restOfBg

\* step 4: repo.save(new_guideline) and the response
GuidelineSave(p) ==
    /\ bg.req[p].pc = "save"
    /\ bg' = [bg EXCEPT
                !.saved = @ + 1,
                !.docs = @ \cup {[id |-> bg.saved + 1,
                                  workspace_id |-> bg.req[p].workspace_id,
                                  uri |-> bg.req[p].uri]},
                !.req[p].pc = "done", !.req[p].status = OK]
    /\ UNCHANGED restOfBg

BgNext ==
    \E p \in GuidelineProcs :
        \/ GuidelineCreate(p)
        \/ GuidelineQuery(p)
        \/ GuidelineDelete(p)
        \/ GuidelineDeleteBlobs(p)
        \/ GuidelineDeleteDoc(p)
        \/ GuidelineUpload(p)
        \/ GuidelineExtract(p)
        \/ GuidelineSave(p)

(***************************************************************************)
(* Part VIII - BaseRepository.save and update                              *)
(*                                                                         *)
(* One collection written through BaseRepository, call after call.         *)
(* datetime.now(timezone.utc) is read from a clock that does not run       *)
(* backwards; two calls can read the same instant.                         *)
(***************************************************************************)
\* instants of the clock explored
MaxClock == 2
\* number of save and update calls explored
MaxWrites == 3

\* the value `None` of Optional[T]
None == [id |-> "None"]

\* item.updated_at = now; collection_ref.document(item.id).set(item.model_dump())
Save(docs, item, now) ==
    [x \in DOMAIN docs \cup {item.id} |->
        IF x = item.id THEN [item EXCEPT !.updated_at = now] ELSE docs[x]]

\* variant: the partial update is written without the existence check
UpdateUnchecked(docs, item_id, update_data, now) ==
    [x \in DOMAIN docs \cup {item_id} |->
        IF x = item_id
        THEN [id |-> item_id, created_at |-> now, updated_at |-> now,
              data |-> update_data.data]
        ELSE docs[x]]

\* update_data["updated_at"] = now; if not doc.exists: return None;
\* doc_ref.update(update_data): the collection after the call
UpdateDocs(docs, item_id, update_data, now) ==
    IF item_id \notin DOMAIN docs THEN docs
    ELSE [docs EXCEPT ![item_id].data = update_data.data,
                      ![item_id].updated_at = now]

IdleRepo ==
    [docs |-> << >>, now |-> 0, calls |-> 0,
     last |-> [op |-> "none", id |-> "none", result |-> None]]

restOfRepo == <<jobVars, coll, trav, search, enr, up, ws, bg, moreVars>>

\* save(item) of a new item (BaseDocument's defaults: created_at = updated_at
\* = the instant of construction) or of a stored record with changed fields
RepoSave ==
    /\ store.calls < MaxWrites
    /\ \E id \in {"r1", "r2"} : \E data \in {"p", "q"} :
         LET item == IF id \in DOMAIN store.docs
                     THEN [store.docs[id] EXCEPT !.data = data]
                     ELSE [id |-> id, created_at |-> store.now,
                           updated_at |-> store.now, data |-> data]
         IN  store' = [store EXCEPT
                        !.docs = Save(@, item, store.now),
                        !.calls = @ + 1,
                        !.last = [op |-> "save", id |-> id, result |-> [id |-> id]]]
    /\ UNCHANGED restOfRepo

\* update(item_id, update_data); returns get_by_id(item_id) or None
RepoUpdate ==
    /\ store.calls < MaxWrites
    /\ \E id \in {"r1", "r2"} : \E data \in {"p", "q"} :
         LET docs == UpdateDocs(store.docs, id, [data |-> data], store.now)
         IN  store' = [store EXCEPT
                        !.docs = docs,
                        !.calls = @ + 1,
                        !.last = [op |-> "update", id |-> id,
                                  result |-> IF id \in DOMAIN store.docs
                                             THEN [id |-> docs[id].id]
                                             ELSE None]]
    /\ UNCHANGED restOfRepo

\* time passes
RepoTick ==
    /\ store.now < MaxClock
    /\ store' = [store EXCEPT !.now = @ + 1]
    /\ UNCHANGED restOfRepo

RepoNext ==
    \/ RepoSave
    \/ RepoUpdate
    \/ RepoTick

(***************************************************************************)
(* Part IX - get_current_user and RoleChecker                              *)
(*                                                                         *)
(* get_current_user verifies the bearer token, checks the e-mail and the   *)
(* hosted domain, and provisions the user; all of it inside one try block  *)
(* whose except clauses turn an exception into the status of the answer.   *)
(***************************************************************************)
UNAUTHORIZED == 401

\* the try block of get_current_user: the exception that leaves it.
\* verify_oauth2_token raises, or the e-mail/domain check raises
\* HTTPException(403), or create_user_if_not_exists(email=, name=, picture=)
\* is called without the uid its signature requires
TryBlock(verify, email, hd) ==
    IF verify # "ok" THEN verify
    ELSE IF email = "" \/ hd # "google.com" THEN "HTTPException"
    ELSE "TypeError"

\* except ExpiredIdTokenError: 401; except InvalidIdTokenError: 401;
\* except Exception: 500
ExceptClauses(exc) ==
    IF exc \in {"ExpiredIdTokenError", "InvalidIdTokenError"}
    THEN UNAUTHORIZED ELSE SERVER_ERROR

IdleAuth ==
    [pc |-> "idle", op |-> "none", env |-> "local", verify |-> "ok", email |-> "",
     hd |-> "", raised |-> "none", status |-> 0, roles |-> {}, allowed |-> {},
     users |-> {}]

restOfAuth == <<jobVars, pageVars, search, enr, up, ws, bg, store, dup, gal, img, pdf>>

\* one request through get_current_user: ENVIRONMENT, the outcome of the
\* token verification and the e-mail and hosted domain of the token
GetCurrentUser ==
    /\ auth.pc = "idle"
    /\ \E env \in {"local", "production"} :
       \E verify \in {"ok", "ExpiredIdTokenError", "InvalidIdTokenError", "ValueError"} :
       \E email \in {"", "a@google.com"} : \E hd \in {"", "google.com", "example.com"} :
         LET exc == TryBlock(verify, email, hd)
         IN  auth' = [auth EXCEPT
                        !.pc = "done", !.op = "get_current_user", !.env = env,
                        !.verify = verify, !.email = email, !.hd = hd,
                        !.raised = IF env = "local" THEN "none" ELSE exc,
                        !.status = IF env = "local" THEN OK ELSE ExceptClauses(exc),
                        !.roles = IF env = "local" THEN {"user", "creator", "admin"}
                                  ELSE {}]
    /\ UNCHANGED restOfAuth

\* RoleChecker(allowed_roles).__call__(user)
RoleChecker ==
    /\ auth.pc = "idle"
    /\ \E roles \in SUBSET {"user", "creator", "admin"} :
       \E allowed_roles \in SUBSET {"user", "creator", "admin"} :
         LET is_authorized == \E role \in roles : role \in allowed_roles
         IN  auth' = [auth EXCEPT
                        !.pc = "done", !.op = "RoleChecker", !.roles = roles,
                        !.allowed = allowed_roles,
                        !.status = IF is_authorized THEN OK ELSE FORBIDDEN]
    /\ UNCHANGED restOfAuth

AuthNext ==
    \/ GetCurrentUser
    \/ RoleChecker

(***************************************************************************)
(* Part X - _process_video_in_background dispatched twice for one record   *)
(*                                                                         *)
(* Each run is a process of the pool; the runs share nothing but the       *)
(* media_library document, which a run writes only in its terminal         *)
(* media_repo.update: update_data on success, error_update_data in the     *)
(* exception handler.                                                      *)
(***************************************************************************)
\* status, gcs_uris, thumbnail_uris and error_message of a document
TerminalFields(d) ==
    [status |-> d.status, gcs_uris |-> d.gcs_uris,
     thumbnail_uris |-> d.thumbnail_uris, error_message |-> d.error_message]

IdleDup ==
    [doc |-> Placeholder("m1", [prompt |-> "a red bicycle", number_of_media |-> 1]),
     run |-> [p \in {1, 2} |-> IdleWorker], log |-> << >>]

restOfDup == <<jobVars, pageVars, search, enr, up, ws, bg, store, auth, gal, img, pdf>>

\* executor.submit(_process_video_in_background, media_item_id=...)
DupSubmit(p) ==
    /\ dup.run[p].pc = "idle"
    /\ dup' = [dup EXCEPT !.run[p] = [@ EXCEPT !.pc = "start", !.media_item_id = dup.doc.id]]
    /\ UNCHANGED restOfDup

\* the run up to its terminal write: the generation succeeded with one video
\* and its thumbnail, or an exception reached the handler
DupBody(p) ==
    /\ dup.run[p].pc = "start"
    /\ \/ \E v \in VideoUris :
            dup' = [dup EXCEPT !.run[p] =
                      [@ EXCEPT !.pc = "artifact", !.i = 2, !.thumbs = <<ThumbUri(v)>>,
                                !.op = [done |-> TRUE, error |-> FALSE,
                                        has_response |-> TRUE, videos |-> <<v>>]]]
       \/ \E msg \in ExcMsgs \cup {OpErrorMsg} :
            dup' = [dup EXCEPT !.run[p] = Raise(@, "poll", msg)]
    /\ UNCHANGED restOfDup

\* media_repo.update(media_item_id, update_data), whose re-read may raise
DupComplete(p) ==
    /\ dup.run[p].pc = "artifact"
    /\ LET after == Update(dup.doc, dup.run[p].media_item_id,
                           CompletedUpdateData(dup.run[p]))
       IN  \/ dup' = [dup EXCEPT
                        !.doc = after, !.run[p] = [@ EXCEPT !.pc = "done"],
                        !.log = Append(@, [by |-> p, after |-> TerminalFields(after)])]
           \/ \E msg \in ExcMsgs :
                dup' = [dup EXCEPT
                          !.doc = after, !.run[p] = Raise(@, "reread", msg),
                          !.log = Append(@, [by |-> p, after |-> TerminalFields(after)])]
    /\ UNCHANGED restOfDup

\* except Exception as e: media_repo.update(media_item_id, error_update_data)
DupHandler(p) ==
    /\ dup.run[p].pc = "handler"
    /\ LET after == Update(dup.doc, dup.run[p].media_item_id,
                           ErrorUpdateData(dup.run[p]))
       IN  dup' = [dup EXCEPT
                     !.doc = after, !.run[p] = [@ EXCEPT !.pc = "done"],
                     !.log = Append(@, [by |-> p, after |-> TerminalFields(after)])]
    /\ UNCHANGED restOfDup

DupNext ==
    \E p \in {1, 2} :
        \/ DupSubmit(p)
        \/ DupBody(p)
        \/ DupComplete(p)
        \/ DupHandler(p)

(***************************************************************************)
(* Part XI - GalleryService.get_paginated_gallery                          *)
(*                                                                         *)
(* The service forces status = COMPLETED on the request of a non-admin and *)
(* hands the request to MediaRepository.query, which applies user_email,   *)
(* mime_type and model, the cursor and the limit, and returns the list of  *)
(* the documents of the page.                                              *)
(***************************************************************************)
IdleGal ==
    [pc |-> "idle", is_admin |-> FALSE, c |-> << >>, status |-> << >>,
     search_dto |-> [owner |-> NoFilter, kind |-> NoFilter, limit |-> 1,
                     start_after |-> NoCursor, status |-> NoFilter],
     media_items |-> << >>, result |-> [error |-> "pending", data |-> << >>, count |-> 0]]

restOfGal == <<jobVars, pageVars, search, enr, up, ws, bg, store, auth, dup, img, pdf>>

\* lines 168-172 over a media_library collection whose documents carry a
\* status: is_admin = ADMIN in current_user.roles;
\* if not is_admin: search_dto.status = COMPLETED
GalleryScope ==
    /\ gal.pc = "idle"
    /\ \E is_admin \in BOOLEAN :
       \E c \in {x \in Collections : \A d \in DOMAIN x : x[d].created_at = 1 /\ x[d].kind = "x"} :
       \E status \in [DOMAIN c -> {PROCESSING, COMPLETED, FAILED}] :
       \E sent \in {NoFilter, PROCESSING, COMPLETED, FAILED} :
       \E owner \in {NoFilter, "a"} : \E limit \in 1..MaxLimit :
         gal' = [gal EXCEPT
                   !.pc = "scoped", !.is_admin = is_admin, !.c = c, !.status = status,
                   !.search_dto = [owner |-> owner, kind |-> NoFilter, limit |-> limit,
                                   start_after |-> NoCursor,
                                   status |-> IF ~is_admin THEN COMPLETED ELSE sent]]
    /\ UNCHANGED restOfGal

\* lines 175-188: media_repo.query(search_dto), then .data, .count and
\* .next_page_cursor of what it returned; a list has none of them, so the
\* attribute access raises AttributeError
GalleryQuery ==
    /\ gal.pc = "scoped"
    /\ LET media_items_query == MediaRepositoryQuery(gal.c, gal.search_dto)
       IN  gal' = [gal EXCEPT
                     !.pc = "done", !.media_items = media_items_query.items,
                     !.result =
                        IF media_items_query.paginated
                        THEN [error |-> "none", data |-> media_items_query.items,
                              count |-> media_items_query.count]
                        ELSE [error |-> "AttributeError", data |-> << >>, count |-> 0]]
    /\ UNCHANGED restOfGal

GalNext ==
    \/ GalleryScope
    \/ GalleryQuery

(***************************************************************************)
(* Part XII - ImagenService.generate_images under its retry decorator      *)
(*                                                                         *)
(* @retry(stop=stop_after_attempt(3), retry=retry_if_exception_type(       *)
(* Exception), reraise=True) calls the body again with the same arguments, *)
(* hence with the same request_dto object, whenever the body raises, and   *)
(* re-raises the last exception after the third attempt; the controller    *)
(* turns that exception into the status of the answer.                     *)
(***************************************************************************)
stop_after_attempt == 3

\* gemini_service.enhance_prompt_from_dto(dto=request_dto, ...): a prompt
\* built from request_dto.prompt
EnhancePrompt(prompt) == <<"enhanced">> \o prompt

IdleImg ==
    [pc |-> "idle", caller_prompt |-> << >>, request_dto |-> [prompt |-> << >>],
     attempt |-> 0, saved |-> << >>, ends |-> "none", exc |-> "none",
     status |-> 0, detail |-> 0]

restOfImg == <<jobVars, pageVars, search, enr, up, ws, bg, store, auth, dup, gal, pdf>>

\* one execution of the body of generate_images, by the place where it ends:
\*   "rewrite"  enhance_prompt_from_dto raises (line 144)
\*   "generate" the generation call raises (lines 159-206)
\*   "empty"    no image was generated: return None (lines 208-209)
\*   "sign"     generate_presigned_url raises (lines 235-241)
\*   "save"     media_repo.save raises (line 264)
\*   "response" MediaItemResponse(...) raises after the save (lines 266-269)
\*   "return"   the response is returned
GenerateImages(st, ends, exc) ==
    LET original_prompt == st.request_dto.prompt
        rewritten_prompt == EnhancePrompt(original_prompt)
        media_post_to_save ==
            [prompt |-> rewritten_prompt, original_prompt |-> original_prompt]
    IN  [st EXCEPT
           !.attempt = @ + 1, !.ends = ends,
           !.exc = IF ends \in {"empty", "return"} THEN "none" ELSE exc,
           !.request_dto = IF ends = "rewrite" THEN @ ELSE [prompt |-> rewritten_prompt],
           !.saved = IF ends \in {"response", "return"}
                     THEN Append(@, media_post_to_save) ELSE @]

\* the decorator and the controller after one execution of the body: a
\* return ends the call; an exception starts the next attempt, or after the
\* last attempt reaches the controller (ValueError: 400, Exception: 500,
\* detail = str(e))
Retry(st) ==
    IF st.exc = "none" THEN [st EXCEPT !.pc = "done", !.status = OK]
    ELSE IF st.attempt < stop_after_attempt THEN st
    ELSE [st EXCEPT !.pc = "done", !.detail = st.attempt,
                    !.status = IF st.exc = "ValueError" THEN BAD_REQUEST
                               ELSE SERVER_ERROR]

\* POST /api/images/generate-images with the caller's prompt
ImgCall ==
    /\ img.pc = "idle"
    /\ \E prompt \in {<<"a red bicycle">>, <<"a cat">>} :
         img' = [img EXCEPT !.pc = "calling", !.caller_prompt = prompt,
                            !.request_dto = [prompt |-> prompt]]
    /\ UNCHANGED restOfImg

\* one attempt of the decorated generate_images
ImgAttempt ==
    /\ img.pc = "calling"
    /\ \E ends \in {"rewrite", "generate", "empty", "sign", "save", "response", "return"} :
       \E exc \in {"ValueError", "Exception"} :
         img' = Retry(GenerateImages(img, ends, exc))
    /\ UNCHANGED restOfImg

ImgNext ==
    \/ ImgCall
    \/ ImgAttempt

(***************************************************************************)
(* Part XIII - BrandGuidelineService._split_and_upload_pdf                 *)
(*                                                                         *)
(* A PDF of file_size bytes and num_pages pages; the page indices are      *)
(* 0..num_pages-1 and a chunk is the sequence of the indices added to its  *)
(* PdfWriter.                                                              *)
(***************************************************************************)
\* largest number of pages explored
MaxPages == 4
\* largest file size explored, in multiples of the limit
MaxChunks == 3

GEMINI_PDF_LIMIT_BYTES == 50 * 1024 * 1024

\* math.ceil(a / b) for positive integers
Ceil(a, b) == (a + b - 1) \div b

IdlePdf ==
    [pc |-> "idle", file_size |-> 1, num_pages |-> 1, num_chunks |-> 0,
     pages_per_chunk |-> 0, i |-> 0, chunks |-> << >>, uris |-> << >>]

restOfPdf == <<jobVars, pageVars, search, enr, up, ws, bg, store, auth, dup, gal, img>>

\* lines 60-85: a file within the limit is uploaded whole; otherwise
\* num_chunks and pages_per_chunk are computed
PdfBegin ==
    /\ pdf.pc = "idle"
    /\ IF pdf.file_size <= GEMINI_PDF_LIMIT_BYTES
       THEN \E gcs_uri \in {NoUri, 1} :
              pdf' = [pdf EXCEPT !.pc = "done",
                                 !.uris = IF gcs_uri # NoUri THEN <<gcs_uri>> ELSE << >>]
       ELSE LET num_chunks == Ceil(pdf.file_size, GEMINI_PDF_LIMIT_BYTES)
            IN  pdf' = [pdf EXCEPT !.pc = "loop", !.num_chunks = num_chunks,
                                   !.pages_per_chunk = Ceil(pdf.num_pages, num_chunks)]
    /\ UNCHANGED restOfPdf

\* lines 88-112, one iteration of `for i in range(num_chunks)`: the pages
\* range(start_page, end_page) are written to a chunk and its upload is queued
PdfChunk ==
    /\ pdf.pc = "loop"
    /\ pdf.i < pdf.num_chunks
    /\ LET start_page == pdf.i * pdf.pages_per_chunk
           end_page == Min(start_page + pdf.pages_per_chunk, pdf.num_pages)
           chunk == IF end_page > start_page
                    THEN [k \in 1..(end_page - start_page) |-> start_page + k - 1]
                    ELSE << >>
       IN  pdf' = [pdf EXCEPT !.i = @ + 1, !.chunks = Append(@, chunk)]
    /\ UNCHANGED restOfPdf

\* line 114: asyncio.gather(*upload_tasks), the results in the order of the
\* chunks; upload_bytes_to_gcs returns the URI of the chunk or None
PdfGather ==
    /\ pdf.pc = "loop"
    /\ pdf.i = pdf.num_chunks
    /\ \E uploaded \in [1..pdf.num_chunks -> BOOLEAN] :
         pdf' = [pdf EXCEPT
                   !.pc = "done",
                   !.uris = [k \in 1..pdf.num_chunks |-> IF uploaded[k] THEN k ELSE NoUri]]
    /\ UNCHANGED restOfPdf

PdfNext ==
    \/ PdfBegin
    \/ PdfChunk
    \/ PdfGather

(***************************************************************************)
(* Specifications                                                          *)
(***************************************************************************)
MoreInit ==
    /\ auth = IdleAuth
    /\ dup = IdleDup
    /\ gal = IdleGal
    /\ img = IdleImg

AuxInit ==
    /\ search = IdleSearch
    /\ enr = IdleEnr
    /\ up = IdleUp
    /\ ws = WsIdle
    /\ bg = IdleBg
    /\ store = IdleRepo
    /\ MoreInit

Init ==
    /\ JobInit
    /\ coll = << >>
    /\ trav = IdleTrav
    /\ AuxInit
    /\ pdf = IdlePdf

Next == JobNext

\* the video generation job
Spec == Init /\ [][Next]_vars

\* the video generation job with the worker process scheduled fairly: a step
\* of the worker that stays possible is eventually taken
SpecJobFair ==
    /\ Init /\ [][Next]_vars
    /\ WF_vars(WorkerSetup) /\ WF_vars(WorkerInit) /\ WF_vars(WorkerRewrite)
    /\ WF_vars(WorkerSubmit) /\ WF_vars(WorkerPoll) /\ WF_vars(WorkerCheck)
    /\ WF_vars(WorkerArtifact) /\ WF_vars(WorkerComplete) /\ WF_vars(WorkerHandler)

PInit ==
    /\ JobInit
    /\ coll \in Collections
    /\ trav = IdleTrav
    /\ AuxInit
    /\ pdf = IdlePdf

\* the paginated queries over a collection without concurrent writes
SpecPage == PInit /\ [][PageNext]_vars

SInit ==
    /\ JobInit
    /\ coll \in {c \in Collections : \A d \in DOMAIN c : c[d].created_at = 1}
    /\ trav = IdleTrav
    /\ AuxInit
    /\ pdf = IdlePdf

\* the search requests
SpecSearch == SInit /\ [][SearchNext]_vars

\* the enrichment of a response
SpecEnrich == Init /\ [][EnrichNext]_vars

\* two interleaved upload_asset requests
SpecUpload == Init /\ [][UploadNext]_vars

WInit ==
    /\ JobInit
    /\ coll = << >>
    /\ trav = IdleTrav
    /\ search = IdleSearch /\ enr = IdleEnr /\ up = IdleUp
    /\ bg = IdleBg /\ store = IdleRepo
    /\ MoreInit
    /\ ws \in {[WsIdle EXCEPT !.doc = d] : d \in WorkspaceDocs}
    /\ pdf = IdlePdf

\* the members of one workspace
SpecWorkspace == WInit /\ [][WsNext]_vars

\* two interleaved brand-guideline requests
SpecGuideline == Init /\ [][BgNext]_vars

\* a collection written through BaseRepository
SpecRepo == Init /\ [][RepoNext]_vars

\* the authentication and role dependencies of a request
SpecAuth == Init /\ [][AuthNext]_vars

\* two runs of the video worker on one record
SpecDup == Init /\ [][DupNext]_vars

\* one gallery request
SpecGallery == Init /\ [][GalNext]_vars

\* one call of generate_images
SpecImagen == Init /\ [][ImgNext]_vars

\* a PDF of any explored size and number of pages
PdfInit ==
    /\ JobInit
    /\ coll = << >>
    /\ trav = IdleTrav
    /\ AuxInit
    /\ \E k \in 0..(MaxChunks - 1) : \E r \in {1, GEMINI_PDF_LIMIT_BYTES} :
       \E num_pages \in 1..MaxPages :
         pdf = [IdlePdf EXCEPT !.file_size = k * GEMINI_PDF_LIMIT_BYTES + r,
                               !.num_pages = num_pages]

\* one call of _split_and_upload_pdf
SpecPdf == PdfInit /\ [][PdfNext]_vars

(***************************************************************************)
(* Properties of the video generation job (checked under Spec)             *)
(***************************************************************************)
StatusWrites(st) == Cardinality({k \in DOMAIN writes : writes[k] = st})

\* the remote operation returned the requested number of videos, each with a URI
FullResult ==
    /\ worker.op.done /\ ~worker.op.error /\ worker.op.has_response
    /\ Len(worker.op.videos) = api.req.number_of_media
    /\ \A k \in DOMAIN worker.op.videos : worker.op.videos[k] # NoUri

\* the thumbnails of the artifacts all of whose steps succeeded, in order
RECURSIVE ThumbsOfSucceeded(_, _, _)
ThumbsOfSucceeded(vs, k, failed) ==
    IF k > Len(vs) THEN << >>
    ELSE IF vs[k] # NoUri /\ k \notin failed
         THEN <<ThumbUri(vs[k])>> \o ThumbsOfSucceeded(vs, k + 1, failed)
         ELSE ThumbsOfSucceeded(vs, k + 1, failed)

\* C1: the status of the job's record changes only from PROCESSING to
\* COMPLETED or FAILED (hence at most once); after the worker has written a
\* terminal status nothing, its exception handler included, writes status again.
C1_StatusChangesOnce ==
    [][(doc # NoDoc /\ doc'.status # doc.status)
         => (doc.status = PROCESSING /\ doc'.status \in Terminal)]_vars

\* C2: when the worker has returned, whatever the outcome of its steps, the
\* record is COMPLETED or FAILED, never PROCESSING.
C2_TerminalWhenWorkerReturns ==
    worker.pc = "done" => doc.status \in Terminal

\* C3: the response of start_video_generation_job has status PROCESSING, empty
\* gcs_uris, thumbnail_uris, presigned_urls and presigned_thumbnail_urls, and
\* the id of the document that was saved as a PROCESSING placeholder; this
\* holds whatever the worker has done by then.
C3_ImmediateResponse ==
    resp # NoResp =>
        /\ resp.status = PROCESSING
        /\ resp.gcs_uris = << >> /\ resp.thumbnail_uris = << >>
        /\ resp.presigned_urls = << >> /\ resp.presigned_thumbnail_urls = << >>
        /\ doc # NoDoc /\ doc.id = resp.id
        /\ writes[1] = PROCESSING
        /\ api.placeholder.gcs_uris = << >> /\ api.placeholder.thumbnail_uris = << >>

\* the response was returned after the worker had already completed the job
C3_Witness ==
    /\ resp # NoResp
    /\ doc.status = COMPLETED
    /\ worker.pc = "done"

C5_CompletedCarriesUris ==
    (doc # NoDoc /\ doc.status = COMPLETED /\ FullResult) =>
        /\ doc.gcs_uris = worker.op.videos
        /\ doc.gcs_uris # << >>
        /\ doc.num_media = api.req.number_of_media
        /\ doc.generation_time > 0
        /\ StatusWrites(COMPLETED) = 1

C5_Witness ==
    /\ doc # NoDoc
    /\ doc.status = COMPLETED
    /\ FullResult
    /\ api.req.number_of_media >= 2
    /\ doc.gcs_uris[1] > doc.gcs_uris[2]

\* C6: a failure of the download, the thumbnail extraction, the upload or the
\* cleanup of one artifact does not abort the job: it ends COMPLETED with
\* every video URI and with the thumbnails of the artifacts that succeeded.
C6_ArtifactFailureTolerated ==
    (/\ worker.pc = "done"
     /\ worker.art_failed # {}
     /\ worker.raised_at \in {"none", "download", "cleanup"}) =>
        /\ doc.status = COMPLETED
        /\ doc.gcs_uris = UrisOf(worker.op.videos)
        /\ SelectSeq(doc.thumbnail_uris, LAMBDA u : u # EmptyUri) =
              ThumbsOfSucceeded(worker.op.videos, 1, worker.art_failed)

Range(s) == {s[k] : k \in DOMAIN s}
FirstQueryDone == trav.pages = 1 \/ (trav.pages = 0 /\ trav.pc = "failed")
AQueryDone == trav.pages >= 1 \/ trav.pc = "failed"
CountedTraversal ==
    /\ trav.pc # "idle"
    /\ trav.repo \in {"users", "user_assets"}
    /\ trav.start = NoCursor
    /\ trav.dto.limit >= 1

C9_CursorOnlyOnFullPage ==
    (AQueryDone /\ trav.repo \in {"users", "user_assets"}) =>
        /\ trav.last.error = "none"
        /\ trav.last.next_page_cursor # NoCursor =>
              /\ Len(trav.last.items) = trav.dto.limit
              /\ trav.last.next_page_cursor = trav.last.items[Len(trav.last.items)]
        /\ Len(trav.last.items) < trav.dto.limit =>
              trav.last.next_page_cursor = NoCursor

\* C10: a start_after naming an id without a document gives exactly the
\* outcome of the same query without a cursor (items, order, count, next
\* cursor, and no error of its own), in all four repositories.
C10_AbsentCursorIsFirstPage ==
    (FirstQueryDone /\ trav.start # NoCursor /\ trav.start \notin DOMAIN coll) =>
        trav.last = RunQuery(trav.repo, coll, [trav.dto EXCEPT !.start_after = NoCursor])

C10_Witness ==
    /\ FirstQueryDone
    /\ trav.start # NoCursor
    /\ trav.start \notin DOMAIN coll
    /\ trav.repo = "templates"
    /\ Len(trav.last.items) >= 2
    /\ trav.last.error = "none"

(***************************************************************************)
(* Properties of the search requests (checked under SpecSearch)            *)
(***************************************************************************)
\* C11: every paginated search request type rejects limit = 0 and any limit
\* above its declared maximum with a validation error, so that no repository
\* query is executed with a limit outside 1..maximum.
C11_LimitValidated ==
    search.pc # "idle" =>
        /\ (\/ search.body.limit = 0
            \/ /\ LimitField(search.cls).bounded
               /\ search.body.limit > LimitField(search.cls).le)
              => search.pc = "rejected"
        /\ search.pc = "done" => search.dto.limit >= 1

\* the records of the caller that pass the mime_type filter of the request
OwnAssets ==
    {d \in DOMAIN coll : /\ coll[d].owner = search.caller.id
                         /\ search.body.kind # NoFilter => coll[d].kind = search.body.kind}

\* C20: for a caller without the admin role the source-asset search returns
\* only assets whose user_id is the caller's id; the user_email, scope,
\* asset_type and original_filename of the request are cleared, and items and
\* count are those of the caller's assets whatever these fields carried.
C20_NonAdminSeesOwnAssets ==
    (search.pc = "done" /\ search.cls = "SourceAssetSearchDto" /\ ~search.caller.admin) =>
        /\ search.dto.adm = NoAdminFilters
        /\ \A k \in DOMAIN search.last.items :
              search.last.items[k] \in OwnAssets
        /\ search.last.error = "none" =>
              /\ search.last.count = Cardinality(OwnAssets)
              /\ search.body.start_after = NoCursor =>
                    Len(search.last.items) = Min(search.body.limit, Cardinality(OwnAssets))

\* a non-admin sent every admin-only field and got a page of own assets from
\* a collection that also holds a matching asset of another user
C20_Witness ==
    /\ search.pc = "done"
    /\ search.cls = "SourceAssetSearchDto"
    /\ ~search.caller.admin
    /\ search.body.adm.user_email # NoFilter /\ search.body.adm.scope # NoFilter
    /\ search.body.adm.asset_type # NoFilter /\ search.body.adm.original_filename # NoFilter
    /\ search.last.error = "none"
    /\ search.last.items # << >>
    /\ \E d \in DOMAIN coll : coll[d].owner # search.caller.id

(***************************************************************************)
(* Properties of the enrichment (checked under SpecEnrich)                 *)
(***************************************************************************)
\* entry k of links is the link of reference k of refs, for every reference
LinksMatch(refs, links) ==
    /\ Len(links) = Len(refs)
    /\ \A k \in DOMAIN refs : refs[k] # EmptyUri => links[k] = SignedUrl(refs[k])

\* C12: for a record with K entries in gcs_uris (likewise thumbnail_uris) the
\* enriched response has exactly K presigned_urls, entry i being the link of
\* reference i, for every order of completion of the signing tasks; no
\* reference, an empty or unsignable one included, is dropped or shifts others.
C12_LinksMatchReferences ==
    (enr.pc = "done" /\ enr.items # << >>) =>
        /\ enr.result.error = "none"
        /\ \A i \in DOMAIN enr.items :
              /\ LinksMatch(enr.items[i].gcs_uris, enr.result.data[i].presigned_urls)
              /\ LinksMatch(enr.items[i].thumbnail_uris,
                            enr.result.data[i].presigned_thumbnail_urls)

\* C13: if generate_presigned_url raises for one reference of one item, the
\* enrichment still returns a response, in which the links of all other
\* references and of all other items of the page are present.
C13_SigningFailureIsolated ==
    (/\ enr.pc = "done" /\ enr.raised # NoTask
     /\ Cardinality(TasksOf(enr.op, enr.items)) >= 2) =>
        /\ enr.result.error = "none"
        /\ \A i \in DOMAIN enr.items : \A k \in DOMAIN enr.items[i].gcs_uris :
              (i # enr.raised.item \/ k # enr.raised.pos \/ enr.raised.list # "main") =>
                  \E j \in DOMAIN enr.result.data[i].presigned_urls :
                      enr.result.data[i].presigned_urls[j] =
                          SignedUrl(enr.items[i].gcs_uris[k])

(***************************************************************************)
(* Properties of upload_asset (checked under SpecUpload)                   *)
(***************************************************************************)
\* C14: an upload of bytes whose SHA-256 equals that of an asset the same
\* user already has when the call starts returns the id of a stored asset of
\* that user with that hash, and makes no object-storage write, no upscale
\* call and no document save.
C14_DuplicateUploadReturnsExisting ==
    \A p \in UploadProcs :
        (up.req[p].pc = "done" /\ up.req[p].had # {}) =>
            /\ up.req[p].result.status = OK
            /\ \E d \in up.docs :
                  /\ d.id = up.req[p].result.id
                  /\ d.user_id = up.req[p].user.id
                  /\ d.file_hash = Sha256(up.req[p].contents)
            /\ up.req[p].stores = 0
            /\ up.req[p].upscales = 0
            /\ up.req[p].saves = 0

\* the second upload of the same bytes by the same user has returned: still
\* one document, and the objects of the first upload only
C14_Witness ==
    /\ up.started = 2
    /\ \E p \in UploadProcs :
         /\ up.req[p].pc = "done"
         /\ up.req[p].had # {}
         /\ up.req[p].result.status = OK
    /\ Cardinality(up.docs) = 1
    /\ up.objects = 2

C18_RejectedBeforeExternalCalls ==
    /\ \A p \in UploadProcs :
          (up.req[p].pc = "done" /\ up.req[p].result.status \in {BAD_REQUEST, FORBIDDEN}) =>
              /\ up.req[p].stores = 0
              /\ up.req[p].upscales = 0
              /\ up.req[p].saves = 0
    /\ \A p \in GuidelineProcs :
          (/\ bg.req[p].pc = "done" /\ bg.req[p].op = "create"
           /\ bg.req[p].status \in {FORBIDDEN, NOT_FOUND}) => bg.req[p].calls = 0

(***************************************************************************)
(* Properties of the workspace members (checked under SpecWorkspace)       *)
(***************************************************************************)
\* C16: after any sequence of add_member_to_workspace calls, re-adding a
\* member with another role or email included, member_ids is exactly the list
\* of the user_id values of members, and each call changes both lists or
\* neither.
C16_MembersInLockStep ==
    /\ [](ws.doc.member_ids = [k \in DOMAIN ws.doc.members |-> ws.doc.members[k].user_id])
    /\ [][(ws'.doc.members # ws.doc.members) <=> (ws'.doc.member_ids # ws.doc.member_ids)]_vars

(***************************************************************************)
(* Properties of the brand guidelines (checked under SpecGuideline)        *)
(***************************************************************************)
\* C17: after any sequence of create_and_process_guideline and
\* delete_guideline calls, interleaved creates for one workspace included, at
\* most one brand-guideline document exists for a non-null workspace_id.
C17_OneGuidelinePerWorkspace ==
    \A d, e \in bg.docs :
        (d.workspace_id # NoWorkspace /\ d.workspace_id = e.workspace_id) => d = e

(***************************************************************************)
(* Properties of BaseRepository (checked under SpecRepo)                   *)
(***************************************************************************)
\* C19: over any sequence of save and update calls the stored id of an
\* existing document never changes, a save or update never sets updated_at
\* earlier than the stored value (save sets it to the current instant), and
\* an update of an id without a document returns None and creates or changes
\* no document.
C19_IdStableTimestampMonotone ==
    [][/\ \A id \in DOMAIN store.docs :
             /\ id \in DOMAIN store'.docs
             /\ store'.docs[id].id = store.docs[id].id
             /\ store'.docs[id].updated_at >= store.docs[id].updated_at
       /\ (store'.calls # store.calls /\ store'.last.op = "save") =>
             /\ store'.last.id \in DOMAIN store'.docs
             /\ store'.docs[store'.last.id].id = store'.last.id
             /\ store'.docs[store'.last.id].updated_at = store.now
       /\ (/\ store'.calls # store.calls /\ store'.last.op = "update"
           /\ store'.last.id \notin DOMAIN store.docs) =>
             /\ store'.last.result = None
             /\ store'.docs = store.docs]_vars

\* an update of an id without a document has returned None next to a record
\* that was written again after its creation
C19_Witness ==
    /\ store.last.op = "update"
    /\ store.last.result = None
    /\ store.last.id \notin DOMAIN store.docs
    /\ \E id \in DOMAIN store.docs : store.docs[id].updated_at > store.docs[id].created_at
\* C21: get_current_user answers a token that verifies but carries no
\* e-mail, or a hosted domain other than google.com, with 403 and provisions
\* no user document; a failed role check is answered with 403.
C21_DomainRejectionIsForbidden ==
    /\ ( /\ auth.pc = "done" /\ auth.op = "get_current_user"
         /\ auth.env # "local" /\ auth.verify = "ok"
         /\ (auth.email = "" \/ auth.hd # "google.com") )
       => (auth.status = FORBIDDEN /\ auth.users = {})
    /\ ( /\ auth.pc = "done" /\ auth.op = "RoleChecker"
         /\ auth.roles \cap auth.allowed = {} )
       => auth.status = FORBIDDEN

\* C22: when the worker is dispatched twice for one media_item_id, the
\* record undergoes one terminal transition: a terminal write of the run that
\* did not write first leaves status, gcs_uris, thumbnail_uris and
\* error_message as the first terminal write left them.
C22_OneTerminalTransition ==
    \A k \in DOMAIN dup.log :
        dup.log[k].by # dup.log[1].by => dup.log[k].after = dup.log[1].after

\* C23: the worker leaves the polling loop only after it observed
\* operation.done (or because a poll raised) and never writes COMPLETED before
\* that; while it polls it writes nothing and the record stays PROCESSING;
\* under fair scheduling a worker that observed operation.done eventually
\* returns.
C23_PollingLoop ==
    /\ [][(worker.pc = "poll" /\ worker'.pc # "poll") =>
             \/ worker.op.done
             \/ (worker'.pc = "handler" /\ worker'.raised_at = "poll")]_vars
    /\ [](COMPLETED \in Range(writes) => worker.op.done)
    /\ [](worker.pc = "poll" => (doc.status = PROCESSING /\ writes = <<PROCESSING>>))
    /\ (worker.op.done ~> worker.pc = "done")

C23_Witness ==
    /\ worker.pc = "done"
    /\ worker.polls = MaxPolls
    /\ worker.op.done
    /\ doc.status = COMPLETED

\* C24: for a non-admin, every item that get_paginated_gallery takes from
\* the query into its page has status COMPLETED, whatever status filter was
\* sent, and the count of the page counts the COMPLETED matches only.
C24_NonAdminSeesOnlyCompleted ==
    (gal.pc = "done" /\ ~gal.is_admin) =>
        /\ \A k \in DOMAIN gal.media_items :
               gal.status[gal.media_items[k]] = COMPLETED
        /\ gal.result.error = "none" =>
               gal.result.count =
                   Cardinality({d \in Where(gal.c, gal.search_dto) :
                                   gal.status[d] = COMPLETED})

\* C25: the worker is submitted only after the placeholder save returned, a
\* save that raises dispatches no worker, and the worker's terminal update
\* finds the document of its media_item_id present.
C25_PlaceholderBeforeWorker ==
    /\ worker.pc # "idle" =>
          (api.pc \in {"queued", "returned"} /\ doc # NoDoc /\ doc.id = worker.media_item_id)
    /\ api.pc = "error" => (worker.pc = "idle" /\ doc = NoDoc)
    /\ (worker.pc = "done" /\ worker.raised_at # "deps" /\ ~worker.early_return) =>
          StatusWrites(COMPLETED) + StatusWrites(FAILED) >= 1

C25_Witness ==
    /\ api.pc = "queued"
    /\ worker.pc = "done"
    /\ doc # NoDoc
    /\ doc.id = worker.media_item_id
    /\ doc.status \in Terminal

\* C26: in every COMPLETED record written by the video worker, thumbnail_uris
\* has at most as many entries as gcs_uris, in the order of the videos, and
\* every entry is a non-empty reference: an artifact whose thumbnail upload
\* returned no URI contributes no entry.
C26_ThumbnailsAreReferences ==
    (doc # NoDoc /\ doc.status = COMPLETED) =>
        /\ Len(doc.thumbnail_uris) <= Len(doc.gcs_uris)
        /\ \A k \in DOMAIN doc.thumbnail_uris : doc.thumbnail_uris[k] # EmptyUri
        /\ \A i, j \in DOMAIN doc.thumbnail_uris :
              i < j => \E m, n \in DOMAIN doc.gcs_uris :
                          /\ m < n
                          /\ doc.thumbnail_uris[i] = ThumbUri(doc.gcs_uris[m])
                          /\ doc.thumbnail_uris[j] = ThumbUri(doc.gcs_uris[n])

\* C27: one call of generate_images persists at most one MediaItem over all
\* attempts of its retry decorator, of which there are at most 3; after the
\* attempts are exhausted the error of the last attempt is surfaced.
C27_AtMostOneItemSaved ==
    /\ Len(img.saved) <= 1
    /\ img.attempt <= stop_after_attempt
    /\ (img.pc = "done" /\ img.status # OK) =>
          (img.attempt = stop_after_attempt /\ img.detail = img.attempt)

\* C28: every MediaItem persisted by generate_images has original_prompt equal
\* to the caller's prompt and prompt equal to its rewriting, also when it is
\* persisted by a retried attempt.
C28_OriginalPromptKept ==
    \A k \in DOMAIN img.saved :
        /\ img.saved[k].original_prompt = img.caller_prompt
        /\ img.saved[k].prompt = EnhancePrompt(img.caller_prompt)

RECURSIVE Concat(_)
Concat(ss) == IF ss = << >> THEN << >> ELSE Head(ss) \o Concat(Tail(ss))

\* C30: for a PDF above the limit with P >= 1 pages, _split_and_upload_pdf
\* builds num_chunks = ceil(size / limit) chunks of pages_per_chunk =
\* ceil(P / num_chunks) pages; every page index 0..P-1 is in exactly one
\* chunk, in order, the returned list has one entry per chunk in that order,
\* and no chunk is empty.
C30_ChunksPartitionPages ==
    (pdf.pc = "done" /\ pdf.file_size > GEMINI_PDF_LIMIT_BYTES) =>
        /\ Len(pdf.chunks) = Ceil(pdf.file_size, GEMINI_PDF_LIMIT_BYTES)
        /\ pdf.pages_per_chunk = Ceil(pdf.num_pages, Len(pdf.chunks))
        /\ \A k \in DOMAIN pdf.chunks : Len(pdf.chunks[k]) <= pdf.pages_per_chunk
        /\ Concat(pdf.chunks) = [k \in 1..pdf.num_pages |-> k - 1]
        /\ Len(pdf.uris) = Len(pdf.chunks)
        /\ \A k \in DOMAIN pdf.uris : pdf.uris[k] \in {NoUri, k}
        /\ \A k \in DOMAIN pdf.chunks : pdf.chunks[k] # << >>

====
